---- MODULE Spec2Model ----
(***************************************************************************)
(* A model of berserk/utils.py: the path-based adapter built by            *)
(* build_adapter, the field converter built by inner, and the conversions  *)
(* between datetimes and epoch milliseconds.                               *)
(*                                                                         *)
(* Python objects are values tagged with their type.  A str is the         *)
(* sequence of its characters, so that str.split is computed and not       *)
(* assumed.  A dict is the sequence of its <<key, value>> items in         *)
(* insertion order, with no key twice.  Mutable objects (the mapping, the  *)
(* document, the records) live in a heap and are named by references, so   *)
(* that "the same object" and "a new object" can be told apart.            *)
(***************************************************************************)
EXTENDS Integers, Sequences, FiniteSets, TLC

VARIABLES
    heap,       \* reference -> the object it names (adapter side)
    closure,    \* what the adapter closes over: [mapper: a reference, sep: a str]
    caller,     \* the caller's mapping: [mapper: its reference, built: its items
                \* when build_adapter was called (history)]
    args,       \* the arguments of the latest adapter call
    outcome,    \* how the latest adapter call ended
    conv,       \* what convert closes over: [func, keys]
    rheap,      \* reference -> record object (converter side)
    given,      \* history: the record's items and reference passed to convert
    coutcome,   \* how the latest convert call ended
    dt,         \* a datetime, in microseconds since the epoch (UTC)
    millis,     \* to_millis(dt)
    back,       \* datetime_from_millis(millis), microseconds since the epoch
    stage       \* progress of the time round trip

vars == <<heap, closure, caller, args, outcome, conv, rheap, given, coutcome,
          dt, millis, back, stage>>

adapterVars == <<heap, closure, caller, args, outcome>>
convertVars == <<conv, rheap, given, coutcome>>
timeVars == <<dt, millis, back, stage>>

----------------------------------------------------------------------------
(* Python values *)

NoneVal == [t |-> "none", v |-> <<>>]
IntVal(n) == [t |-> "int", v |-> <<n>>]
StrVal(s) == [t |-> "str", v |-> s]
ListVal(s) == [t |-> "list", v |-> s]
DictVal(items) == [t |-> "dict", v |-> items]
EmptyDict == DictVal(<<>>)

\* The keys of a dict, in insertion order.
Keys(d) == [i \in 1..Len(d.v) |-> d.v[i][1]]

KeySet(d) == {d.v[i][1] : i \in 1..Len(d.v)}

\* key in d
HasKey(d, key) == \E i \in 1..Len(d.v) : d.v[i][1] = key

\* d[key], for a key of d
Lookup(d, key) == d.v[CHOOSE i \in 1..Len(d.v) : d.v[i][1] = key][2]

\* d[key] = val: a key of d keeps its place, a new key goes last.
SetItem(d, key, val) ==
    IF HasKey(d, key)
    THEN DictVal([i \in 1..Len(d.v) |->
                    IF d.v[i][1] = key THEN <<key, val>> ELSE d.v[i]])
    ELSE DictVal(Append(d.v, <<key, val>>))

\* del d[key], for a key of d
DelItem(d, key) ==
    LET keep == {i \in 1..Len(d.v) : d.v[i][1] # key}
        RECURSIVE Pick(_)
        Pick(i) == IF i > Len(d.v) THEN <<>>
                   ELSE (IF i \in keep THEN <<d.v[i]>> ELSE <<>>) \o Pick(i + 1)
    IN DictVal(Pick(1))

----------------------------------------------------------------------------
(* str.split(sep), line 124 *)

\* sep occurs in s at position i
MatchAt(s, sep, i) ==
    /\ i + Len(sep) - 1 <= Len(s)
    /\ SubSeq(s, i, i + Len(sep) - 1) = sep

RECURSIVE SplitFrom(_, _, _, _)
\* The pieces of s from position start on, the scan standing at position i.
SplitFrom(s, sep, start, i) ==
    IF i + Len(sep) - 1 > Len(s)
    THEN <<SubSeq(s, start, Len(s))>>
    ELSE IF MatchAt(s, sep, i)
         THEN <<SubSeq(s, start, i - 1)>>
                  \o SplitFrom(s, sep, i + Len(sep), i + Len(sep))
         ELSE SplitFrom(s, sep, start, i + 1)

\* location.split(sep) for a non-empty sep; an empty sep raises ValueError.
Split(s, sep) == SplitFrom(s, sep, 1, 1)

----------------------------------------------------------------------------
(* build_adapter.get, lines 123-126 *)

Raised(e) == [kind |-> e, v |-> NoneVal]
Value(x) == [kind |-> "value", v |-> x]

\* A mutant of Index: a key holding None is taken for a missing key.
IndexSkipsNone(data, key) ==
    IF data.t = "dict"
    THEN IF HasKey(data, key) /\ Lookup(data, key) # NoneVal
         THEN Value(Lookup(data, key)) ELSE Raised("KeyError")
    ELSE Raised("TypeError")

\* data[key] for a str key, line 125: a dict gives the value or KeyError;
\* None, an int, a str and a list cannot be indexed by a str: TypeError.
Index(data, key) ==
    IF data.t = "dict"
    THEN IF HasKey(data, key) THEN Value(Lookup(data, key)) ELSE Raised("KeyError")
    ELSE Raised("TypeError")

RECURSIVE Walk(_, _, _)
\* The loop of lines 124-125 from the i-th key on.
Walk(data, keys, i) ==
    IF i > Len(keys) THEN Value(data)
    ELSE LET step == Index(data, keys[i])
         IN IF step.kind = "value" THEN Walk(step.v, keys, i + 1) ELSE step

get(data, location, sep) ==
    IF sep = <<>> THEN Raised("ValueError")
    ELSE Walk(data, Split(location, sep), 1)

----------------------------------------------------------------------------
(* The heap *)

\* A reference no live object has.
Alloc(h) == CHOOSE r \in 1..(Cardinality(DOMAIN h) + 1) :
                /\ r \notin DOMAIN h
                /\ \A q \in 1..(r - 1) : q \in DOMAIN h

\* The heap without the objects of refs.
Drop(h, refs) == [r \in (DOMAIN h) \ refs |-> h[r]]

----------------------------------------------------------------------------
(* build_adapter.adapter, lines 128-140 *)

\* A mutant of NewResult: one result dict shared by all the calls.
SharedResult(h, dref, prev) ==
    IF prev \in DOMAIN h
    THEN [heap |-> h, ref |-> prev]
    ELSE [heap |-> h @@ (Alloc(h) :> EmptyDict), ref |-> Alloc(h)]

\* A mutant of NewResult: the result is the document itself.
AliasedResult(h, dref, prev) == [heap |-> h, ref |-> dref]

\* result = {}, line 133: a new dict, whatever the document dref and the record
\* prev that the previous call returned (0 if none) are.
NewResult(h, dref, prev) ==
    [heap |-> h @@ (Alloc(h) :> EmptyDict), ref |-> Alloc(h)]

\* A mutant of Missing: a missing key is filled whatever fill says.
MissingAlwaysFilled(h, res, key, default, fill) ==
    [h EXCEPT ![res] = SetItem(@, key, default)]

\* The except branch, lines 137-139.
Missing(h, res, key, default, fill) ==
    IF fill THEN [h EXCEPT ![res] = SetItem(@, key, default)] ELSE h

\* A mutant of Caught: every error of get is taken for a missing key.
CaughtAny(kind) == kind # "value"

\* except KeyError, line 137: the one error of get the adapter recovers.
Caught(kind) == kind = "KeyError"

RECURSIVE Reversed(_)
Reversed(s) == IF s = <<>> THEN <<>> ELSE Reversed(Tail(s)) \o <<Head(s)>>

\* A mutant of items: the mapping is gone through backwards.
itemsReversed(d) == Reversed(d.v)

\* mapper.items(), line 134: the items in the order of the mapping.
items(d) == d.v

RECURSIVE Adapt(_, _, _, _, _, _, _, _)
\* The loop of lines 134-139 from the i-th item of the mapping on.
Adapt(h, res, pairs, i, sep, dref, default, fill) ==
    IF i > Len(pairs) THEN [kind |-> "return", ref |-> res, heap |-> h]
    ELSE LET key == pairs[i][1]
             loc == pairs[i][2].v
             got == get(h[dref], loc, sep)
         IN IF got.kind = "value"
            THEN Adapt([h EXCEPT ![res] = SetItem(@, key, got.v)],
                       res, pairs, i + 1, sep, dref, default, fill)
            ELSE IF Caught(got.kind)
            THEN Adapt(Missing(h, res, key, default, fill),
                       res, pairs, i + 1, sep, dref, default, fill)
            ELSE [kind |-> got.kind, ref |-> 0, heap |-> Drop(h, {res})]

\* adapter(data, default, fill) of the closure clo, data being the object dref.
adapter(h, clo, dref, default, fill, prev) ==
    LET new == NewResult(h, dref, prev)
    IN Adapt(new.heap, new.ref, items(h[clo.mapper]), 1, clo.sep, dref, default, fill)

----------------------------------------------------------------------------
(* build_adapter, lines 85 and 142 *)

\* A mutant of Capture: the adapter keeps a copy of the mapping.
CaptureCopy(h, ref) == [heap |-> h @@ (Alloc(h) :> h[ref]), ref |-> Alloc(h)]

\* The closure names the mapping object the caller passed; nothing is copied.
Capture(h, ref) == [heap |-> h, ref |-> ref]

build_adapter(h, mapper, sep) ==
    LET c == Capture(h, mapper)
    IN [heap |-> c.heap, closure |-> [mapper |-> c.ref, sep |-> sep]]

----------------------------------------------------------------------------
(* Inputs of the adapter *)

kx == <<"x">>
ky == <<"y">>

\* Output field names.
Fields == {<<"a">>, <<"b">>}

\* Locations: a nested path under ".", a nested path under "/", a single key.
Locations == {<<"x", ".", "y">>, <<"x", "/", "y">>, <<"y">>}

Separators == {<<".">>, <<"/">>, <<>>}

\* The item sequences over keys K and values V with no key twice.
ItemSeqs(K, V) ==
    {s \in UNION {[1..n -> K \X V] : n \in 0..Cardinality(K)} :
        \A i, j \in 1..Len(s) : s[i][1] = s[j][1] => i = j}

Dicts(K, V) == {DictVal(s) : s \in ItemSeqs(K, V)}

Mappers == Dicts(Fields, {StrVal(l) : l \in Locations})

Scalars == {NoneVal, IntVal(5), StrVal(ky), ListVal(<<>>)}

\* The dicts {}, {"y": None} and {"y": 5}.
Nested == Dicts({ky}, {NoneVal, IntVal(5)})

\* Documents with "x" alone, holding a scalar or a nested dict, and {}.
OnlyX == Dicts({kx}, Scalars \cup Nested)

\* Documents with "y": 5, alone or with "x" before or after it.
WithY ==
    {DictVal(s) : s \in {t \in ItemSeqs({kx, ky}, {IntVal(5), EmptyDict,
                                                   DictVal(<< <<ky, IntVal(5)>> >>)}) :
        /\ \E i \in 1..Len(t) : t[i][1] = ky
        /\ \A i \in 1..Len(t) : (t[i][1] = ky) <=> (t[i][2] = IntVal(5))}}

\* The documents passed to the adapter; one of them is no dict.
Documents == OnlyX \cup WithY \cup {NoneVal}

\* The documents of the calls made while the caller edits the mapping.
SampleDocuments ==
    {DictVal(<< <<kx, DictVal(<< <<ky, IntVal(5)>> >>)>> >>),
     DictVal(<< <<ky, IntVal(5)>>, <<kx, EmptyDict>> >>),
     DictVal(<< <<kx, IntVal(5)>> >>)}

Defaults == {NoneVal, IntVal(0)}

----------------------------------------------------------------------------
(* The adapter's life *)

\* alive: the objects alive when the call started (history).
NoArgs == [called |-> FALSE, doc |-> NoneVal, dref |-> 0,
           default |-> NoneVal, fill |-> FALSE, alive |-> {}]

\* The caller builds mapping m and calls build_adapter(m, s).
Built(m, s) ==
    LET h0 == [r \in {Alloc(<<>>)} |-> m]
        b == build_adapter(h0, Alloc(<<>>), s)
    IN /\ heap = b.heap
       /\ closure = b.closure
       /\ caller = [mapper |-> Alloc(<<>>), built |-> m.v]
       /\ args = NoArgs
       /\ outcome = [kind |-> "none", ref |-> 0]

InitAdapter == \E m \in Mappers, s \in Separators : Built(m, s)

\* The caller lets go of the previous document and record and calls
\* adapter(doc, default, fill) on a new document.
Call(doc, default, fill) ==
    LET h0 == Drop(heap, {args.dref})
        dref == Alloc(h0)
        out == adapter(h0 @@ (dref :> doc), closure, dref, default, fill, outcome.ref)
    IN /\ heap' = Drop(out.heap, {outcome.ref} \ {out.ref})
       /\ args' = [called |-> TRUE, doc |-> doc, dref |-> dref,
                   default |-> default, fill |-> fill,
                   alive |-> DOMAIN h0 \cup {dref}]
       /\ outcome' = [kind |-> out.kind, ref |-> out.ref]
       /\ UNCHANGED <<closure, caller>>

CallAdapter == \E doc \in Documents, default \in Defaults, fill \in BOOLEAN :
                  Call(doc, default, fill)

\* The same, on a few documents.
CallSample == \E doc \in SampleDocuments, fill \in BOOLEAN :
                 Call(doc, IntVal(0), fill)

\* Between two adapter calls: the caller has let go of the document and the
\* record of the last call.
Between(h) ==
    /\ heap' = Drop(h, {args.dref, outcome.ref})
    /\ args' = NoArgs
    /\ outcome' = [kind |-> "none", ref |-> 0]
    /\ UNCHANGED <<closure, caller>>

\* The caller sets mapping[key] = loc on the mapping it passed to build_adapter.
CallerSets ==
    \E key \in Fields, loc \in Locations :
        /\ SetItem(heap[caller.mapper], key, StrVal(loc)) # heap[caller.mapper]
        /\ Between([heap EXCEPT ![caller.mapper] = SetItem(@, key, StrVal(loc))])

\* The caller deletes mapping[key].
CallerDeletes ==
    \E key \in KeySet(heap[caller.mapper]) :
        Between([heap EXCEPT ![caller.mapper] = DelItem(@, key)])

----------------------------------------------------------------------------
(* Functions passed to inner as func *)

Digits == <<"0", "1", "2", "3", "4", "5", "6", "7", "8", "9">>

IsDigit(c) == \E d \in 1..Len(Digits) : Digits[d] = c

DigitValue(c) == (CHOOSE d \in 1..Len(Digits) : Digits[d] = c) - 1

RECURSIVE ParseDigits(_, _, _)
\* The number the digits s[i..] continue, acc being the number read so far.
ParseDigits(s, i, acc) ==
    IF i > Len(s) THEN acc
    ELSE ParseDigits(s, i + 1, acc * Len(Digits) + DigitValue(s[i]))

\* int(x) for an int, a str of digits, another str, None.
ApplyInt(x) ==
    IF x.t = "int" THEN Value(x)
    ELSE IF x.t = "str"
    THEN IF Len(x.v) > 0 /\ \A i \in 1..Len(x.v) : IsDigit(x.v[i])
         THEN Value(IntVal(ParseDigits(x.v, 1, 0)))
         ELSE Raised("ValueError")
    ELSE Raised("TypeError")

\* lambda x: x + 1
ApplySucc(x) ==
    IF x.t = "int" THEN Value(IntVal(x.v[1] + 1)) ELSE Raised("TypeError")

\* {1: 0}.__getitem__: a func that itself raises KeyError.
ApplyTable(x) ==
    IF x = IntVal(1) THEN Value(IntVal(0)) ELSE Raised("KeyError")

\* noop, lines 81-82
noop(arg) == Value(arg)

Funcs == {"noop", "int", "succ", "table"}

\* func(x)
Apply(func, x) ==
    CASE func = "noop" -> noop(x)
      [] func = "int" -> ApplyInt(x)
      [] func = "succ" -> ApplySucc(x)
      [] func = "table" -> ApplyTable(x)

----------------------------------------------------------------------------
(* inner and its convert, lines 59-68 *)

\* A mutant of Fetch: data.get(k) in place of data[k].
FetchOrNone(data, k) ==
    IF HasKey(data, k) THEN Value(Lookup(data, k)) ELSE Value(NoneVal)

\* data[k] on the right of line 63
Fetch(data, k) == Index(data, k)

\* A mutant of Recovered: except Exception.
RecoveredAny(kind) == kind # "value"

\* except KeyError, line 64: raised by data[k] or by func alike.
Recovered(kind) == kind = "KeyError"

\* return data, line 66
Returned(h, ref) == [heap |-> h, ref |-> ref]

RECURSIVE Convert(_, _, _, _, _)
\* The loop of lines 61-65 from the i-th name of keys on.
Convert(h, ref, func, keys, i) ==
    IF i > Len(keys)
    THEN [kind |-> "return", ref |-> Returned(h, ref).ref, heap |-> Returned(h, ref).heap]
    ELSE LET old == Fetch(h[ref], keys[i])
             new == IF old.kind = "value" THEN Apply(func, old.v) ELSE old
         IN IF new.kind = "value"
            THEN Convert([h EXCEPT ![ref] = SetItem(@, keys[i], new.v)],
                         ref, func, keys, i + 1)
            ELSE IF Recovered(new.kind)
            THEN Convert(h, ref, func, keys, i + 1)
            ELSE [kind |-> new.kind, ref |-> 0, heap |-> h]

\* convert(data) of inner(func, *keys), data being the object ref.
convert(h, c, ref) == Convert(h, ref, c.func, c.keys, 1)

\* inner(func, *keys), lines 59 and 68
inner(func, keys) == [func |-> func, keys |-> keys]

----------------------------------------------------------------------------
(* Inputs of the converter *)

MaxKeys == 2

kr == <<"r">>
kn == <<"n">>

Names == {kr, kn}

KeyTuples == UNION {[1..n -> Names] : n \in 0..MaxKeys}

RecordValues == {IntVal(0), IntVal(1), StrVal(<<"1", "5">>), StrVal(kx), NoneVal}

Records == Dicts(Names, RecordValues)

----------------------------------------------------------------------------
(* The converter's life *)

InitConvert ==
    /\ \E func \in Funcs, keys \in KeyTuples : conv = inner(func, keys)
    /\ rheap = <<>>
    /\ given = [called |-> FALSE, ref |-> 0, items |-> <<>>]
    /\ coutcome = [kind |-> "none", ref |-> 0]

\* The caller makes the record rec and calls convert(rec).
CallConvert ==
    \E rec \in Records :
        LET ref == Alloc(<<>>)
            out == convert([r \in {ref} |-> rec], conv, ref)
        IN /\ rheap' = out.heap
           /\ given' = [called |-> TRUE, ref |-> ref, items |-> rec.v]
           /\ coutcome' = [kind |-> out.kind, ref |-> out.ref]
           /\ UNCHANGED conv

----------------------------------------------------------------------------
(* Python floats: IEEE 754 binary64, round to nearest, ties to even.        *)
(* A positive float is [m, e]: m its significand, Precision bits from the  *)
(* leading 1 on, and e its exponent: the float is the sum of                *)
(* m[i] * 2^(e - i).  Zero is [m |-> <<>>, e |-> 0].  The sign is carried   *)
(* apart: every operation used here is symmetric about zero.               *)

Precision == 53

Zero == [m |-> <<>>, e |-> 0]

Abs(n) == IF n < 0 THEN -n ELSE n

Sign(n) == IF n < 0 THEN -1 ELSE 1

RECURSIVE Pow2(_)
\* 2^k, by squaring.
Pow2(k) ==
    IF k = 0 THEN 1
    ELSE LET h == Pow2(k \div 2)
         IN IF k % 2 = 0 THEN h * h ELSE 2 * h * h

\* The number of binary digits of n >= 0; 0 for 0.
BitLength(n) == CHOOSE w \in 0..31 : n \div Pow2(w) = 0

\* The binary digits of n, the leading one first; none for 0.
IntBits(n) == [i \in 1..BitLength(n) |-> (n \div Pow2(BitLength(n) - i)) % 2]

RECURSIVE BitsInt(_)
\* The number with binary digits bits, halving the digits.
BitsInt(bits) ==
    IF bits = <<>> THEN 0
    ELSE IF Len(bits) = 1 THEN bits[1]
    ELSE LET h == Len(bits) \div 2
         IN BitsInt(SubSeq(bits, 1, h)) * Pow2(Len(bits) - h)
                + BitsInt(SubSeq(bits, h + 1, Len(bits)))

RECURSIVE FracBits(_, _, _)
\* The next k binary digits of r / b, for 0 <= r < b, by long division, and
\* the remainder left; the digits are produced half by half.
FracBits(r, b, k) ==
    IF k <= 0 THEN [bits |-> <<>>, rem |-> r]
    ELSE IF k = 1
    THEN IF 2 * r >= b THEN [bits |-> <<1>>, rem |-> 2 * r - b]
         ELSE [bits |-> <<0>>, rem |-> 2 * r]
    ELSE LET first == FracBits(r, b, k \div 2)
             second == FracBits(first.rem, b, k - k \div 2)
         IN [bits |-> first.bits \o second.bits, rem |-> second.rem]

\* How many zeros the binary fraction r / b starts with, for 0 < r < b.
LeadingZeros(r, b) == CHOOSE z \in 0..31 : r * Pow2(z + 1) >= b

\* bits + 1 on the same number of digits, and the carry out of them.
Increment(bits) ==
    IF \A i \in 1..Len(bits) : bits[i] = 1
    THEN [bits |-> [i \in 1..Len(bits) |-> 0], carry |-> 1]
    ELSE LET z == CHOOSE i \in 1..Len(bits) :
                     bits[i] = 0 /\ \A j \in (i + 1)..Len(bits) : bits[j] = 1
         IN [bits |-> [i \in 1..Len(bits) |->
                          IF i < z THEN bits[i] ELSE IF i = z THEN 1 ELSE 0],
             carry |-> 0]

\* The float nearest to the number with binary digits bits (the first one a 1,
\* of weight 2^(e - 1)) followed by more non-zero digits iff sticky.
RoundToFloat(bits, sticky, e) ==
    IF Len(bits) <= Precision
    THEN [m |-> bits \o [i \in 1..(Precision - Len(bits)) |-> 0], e |-> e]
    ELSE LET keep == SubSeq(bits, 1, Precision)
             guard == bits[Precision + 1]
             more == sticky \/ \E i \in (Precision + 2)..Len(bits) : bits[i] = 1
             up == Increment(keep)
         IN IF guard = 1 /\ (more \/ keep[Precision] = 1)
            THEN IF up.carry = 1
                 THEN [m |-> <<1>> \o [i \in 1..(Precision - 1) |-> 0], e |-> e + 1]
                 ELSE [m |-> up.bits, e |-> e]
            ELSE [m |-> keep, e |-> e]

\* The float of binary digits bits, whose first digit has weight 2^(e - 1).
StripZeros(bits, e) ==
    IF \A i \in 1..Len(bits) : bits[i] = 0 THEN Zero
    ELSE LET z == CHOOSE i \in 1..Len(bits) :
                     bits[i] = 1 /\ \A j \in 1..(i - 1) : bits[j] = 0
         IN RoundToFloat(SubSeq(bits, z, Len(bits)), FALSE, e - (z - 1))

\* a / b for ints a >= 0 and b > 0: the quotient correctly rounded.
TrueDiv(a, b) ==
    LET int == IntBits(a \div b)
        r == a % b
    IN IF a = 0 THEN Zero
       ELSE IF int # <<>>
       THEN LET f == FracBits(r, b, Precision + 1 - Len(int))
            IN RoundToFloat(int \o f.bits, f.rem # 0, Len(int))
       ELSE LET z == LeadingZeros(r, b)
                f == FracBits(r * Pow2(z), b, Precision + 1)
            IN RoundToFloat(f.bits, f.rem # 0, -z)

RECURSIVE TimesRange(_, _, _, _, _)
\* m[lo..hi] * c + carry: its hi - lo + 1 low binary digits, the lowest first,
\* and the carry out of them; the digits are produced half by half.
TimesRange(m, c, lo, hi, carry) ==
    IF lo > hi THEN [bits |-> <<>>, carry |-> carry]
    ELSE IF lo = hi
    THEN [bits |-> <<(m[lo] * c + carry) % 2>>, carry |-> (m[lo] * c + carry) \div 2]
    ELSE LET mid == (lo + hi) \div 2
             low == TimesRange(m, c, mid + 1, hi, carry)
             high == TimesRange(m, c, lo, mid, low.carry)
         IN [bits |-> low.bits \o high.bits, carry |-> high.carry]

\* x * c for a float x >= 0 and an int c > 0 that is a float itself.
Times(x, c) ==
    IF x = Zero THEN Zero
    ELSE LET p == TimesRange(x.m, c, 1, Len(x.m), 0)
             bits == IntBits(p.carry)
                        \o [i \in 1..Len(p.bits) |-> p.bits[Len(p.bits) + 1 - i]]
         IN RoundToFloat(bits, FALSE, x.e + Len(bits) - Len(x.m))

\* int(x) and the integral part modf gives, for a float 0 <= x < 2^Precision.
Trunc(x) == IF x.e <= 0 THEN 0 ELSE BitsInt(SubSeq(x.m, 1, x.e))

\* The fractional part modf gives, for a float 0 <= x < 2^Precision.
Frac(x) ==
    IF x.e <= 0 THEN x ELSE StripZeros(SubSeq(x.m, x.e + 1, Len(x.m)), 0)

\* The integer nearest to the float x >= 0, ties to even.
RoundHalfEven(x) ==
    IF x = Zero \/ x.e < 0 THEN 0
    ELSE LET whole == Trunc(x)
             half == x.m[x.e + 1] = 1
             more == \E i \in (x.e + 2)..Len(x.m) : x.m[i] = 1
         IN IF half /\ (more \/ whole % 2 = 1) THEN whole + 1 ELSE whole

----------------------------------------------------------------------------
(* The time conversions, lines 7-36.  A timezone-aware datetime is its     *)
(* number of microseconds since the epoch.                                 *)

\* dt.timestamp(): the microseconds since the epoch divided by 10**6.
timestamp(us) == TrueDiv(Abs(us), 1000000)

\* to_millis, line 14: int(dt.timestamp() * 1000)
to_millis(us) == Sign(us) * Trunc(Times(timestamp(us), 1000))

\* datetime_from_seconds, line 25: datetime.fromtimestamp(ts, timezone.utc) for
\* ts = sign * x.  The float is split by modf, its fraction times 1e6 is rounded
\* half to even to microseconds, and a full second carries.
datetime_from_seconds(sign, x) ==
    sign * (Trunc(x) * 1000000 + RoundHalfEven(Times(Frac(x), 1000000)))

\* datetime_from_millis, line 36: datetime_from_seconds(millis / 1000)
datetime_from_millis(ms) == datetime_from_seconds(Sign(ms), TrueDiv(Abs(ms), 1000))

----------------------------------------------------------------------------
(* Inputs of the time conversions *)

MaxSeconds == 2

\* Milliseconds and microseconds within a second.
SomeMillis == {0, 1, 2, 3, 5, 7, 9, 500, 999}
SomeMicros == {0, 1, 500, 999}

Datetimes == {s * 1000000 + ms * 1000 + u :
                 s \in (-MaxSeconds)..MaxSeconds, ms \in SomeMillis, u \in SomeMicros}

----------------------------------------------------------------------------
(* The round trip *)

InitTime ==
    /\ dt \in Datetimes
    /\ millis = 0
    /\ back = 0
    /\ stage = "datetime"

ToMillis ==
    /\ stage = "datetime"
    /\ millis' = to_millis(dt)
    /\ stage' = "millis"
    /\ UNCHANGED <<dt, back>>

FromMillis ==
    /\ stage = "millis"
    /\ back' = datetime_from_millis(millis)
    /\ stage' = "back"
    /\ UNCHANGED <<dt, millis>>

----------------------------------------------------------------------------
(* Specifications.  Each follows one component; the others stay as built.  *)

IdleAdapter == Built(EmptyDict, <<".">>)

IdleConvert ==
    /\ conv = inner("noop", <<>>)
    /\ rheap = <<>>
    /\ given = [called |-> FALSE, ref |-> 0, items |-> <<>>]
    /\ coutcome = [kind |-> "none", ref |-> 0]

IdleTime ==
    /\ dt = 0
    /\ millis = 0
    /\ back = 0
    /\ stage = "idle"

\* One adapter over a mapping nobody changes, called on any documents.
Init == InitAdapter /\ IdleConvert /\ IdleTime

Next == CallAdapter /\ UNCHANGED <<convertVars, timeVars>>

Spec == Init /\ [][Next]_vars

\* One converter, called on any records.
InitConverter == IdleAdapter /\ InitConvert /\ IdleTime

NextConverter == CallConvert /\ UNCHANGED <<adapterVars, timeVars>>

SpecConvert == InitConverter /\ [][NextConverter]_vars

\* One adapter over a mapping the caller edits between the calls.
InitMutable ==
    /\ \E m \in Mappers : Built(m, <<".">>)
    /\ IdleConvert
    /\ IdleTime

NextMutable ==
    (CallSample \/ CallerSets \/ CallerDeletes) /\ UNCHANGED <<convertVars, timeVars>>

SpecMutable == InitMutable /\ [][NextMutable]_vars

\* The round trip of a datetime through milliseconds.
InitRoundTrip == IdleAdapter /\ IdleConvert /\ InitTime

NextRoundTrip == (ToMillis \/ FromMillis) /\ UNCHANGED <<adapterVars, convertVars>>

SpecTime == InitRoundTrip /\ [][NextRoundTrip]_vars

----------------------------------------------------------------------------
(* What the claims about the adapter speak of: the path of a pair followed *)
(* through the document key by key.                                        *)

TheMapping == heap[closure.mapper]

Pairs == 1..Len(TheMapping.v)

Field(i) == TheMapping.v[i][1]

Loc(i) == TheMapping.v[i][2].v

Returns == args.called /\ outcome.kind = "return"

Result == heap[outcome.ref]

RECURSIVE CursorAt(_, _, _)
\* The cursor after the first n keys, when each of them was present.
CursorAt(doc, keys, n) ==
    IF n = 0 THEN doc ELSE Lookup(CursorAt(doc, keys, n - 1), keys[n])

RECURSIVE Reaches(_, _, _)
\* Each of the first n keys is present in the cursor it is looked up in.
Reaches(doc, keys, n) ==
    IF n = 0 THEN TRUE
    ELSE /\ Reaches(doc, keys, n - 1)
         /\ CursorAt(doc, keys, n - 1).t = "dict"
         /\ HasKey(CursorAt(doc, keys, n - 1), keys[n])

\* Every traversal step of loc succeeds.
Found(doc, loc, sep) ==
    /\ sep # <<>>
    /\ Reaches(doc, Split(loc, sep), Len(Split(loc, sep)))

\* The value at the end of the path.
PathValue(doc, loc, sep) == CursorAt(doc, Split(loc, sep), Len(Split(loc, sep)))

\* Some step of loc looks up a key that a mapping cursor lacks.
KeyAbsent(doc, loc, sep) ==
    /\ sep # <<>>
    /\ \E n \in 1..Len(Split(loc, sep)) :
          /\ Reaches(doc, Split(loc, sep), n - 1)
          /\ CursorAt(doc, Split(loc, sep), n - 1).t = "dict"
          /\ ~HasKey(CursorAt(doc, Split(loc, sep), n - 1), Split(loc, sep)[n])

\* Some step of loc indexes into a cursor that is no mapping.
NotMapping(doc, loc, sep) ==
    /\ sep # <<>>
    /\ \E n \in 1..Len(Split(loc, sep)) :
          /\ Reaches(doc, Split(loc, sep), n - 1)
          /\ CursorAt(doc, Split(loc, sep), n - 1).t # "dict"

FoundPair(i) == Found(args.doc, Loc(i), closure.sep)
AbsentPair(i) == KeyAbsent(args.doc, Loc(i), closure.sep)
NotMappingPair(i) == NotMapping(args.doc, Loc(i), closure.sep)

\* The record holds under the field of pair i the value at the end of its path.
Extracted(i) ==
    /\ HasKey(Result, Field(i))
    /\ Lookup(Result, Field(i)) = PathValue(args.doc, Loc(i), closure.sep)

\* The record treats pair i as missing: omitted, or filled with the default.
OmittedOrFilled(i) ==
    IF args.fill
    THEN HasKey(Result, Field(i)) /\ Lookup(Result, Field(i)) = args.default
    ELSE ~HasKey(Result, Field(i))

----------------------------------------------------------------------------
(* Claims about the adapter, under Spec *)

\* C1: in the record a call returns, every pair whose traversal steps all
\* succeed has its output field set to the value at the end of its path, a
\* present key holding None included.
C1_FoundIsExtracted ==
    Returns => \A i \in Pairs : FoundPair(i) => Extracted(i)

\* A call returned a record that holds the None found at the end of a path,
\* fill being off.
C1_Witness ==
    /\ Returns
    /\ ~args.fill
    /\ \E i \in Pairs : /\ FoundPair(i)
                        /\ PathValue(args.doc, Loc(i), closure.sep) = NoneVal
                        /\ Extracted(i)

\* C2 as stated: whenever a pair hits an absent key the call does not fail,
\* the field is omitted (fill off) or holds the default (fill on), and the
\* other fields are extracted.
C2_Original ==
    args.called =>
        \A i \in Pairs : AbsentPair(i) =>
            /\ outcome.kind = "return"
            /\ OmittedOrFilled(i)
            /\ \A j \in Pairs : FoundPair(j) => Extracted(j)

\* C2 amended: a pair that hits an absent key does not make the call fail.  The
\* call fails, with the error of C3, exactly when some pair of the mapping
\* indexes into a value that is no mapping; otherwise it returns a record where
\* the field is omitted (fill off) or holds the default (fill on) and the other
\* fields are extracted.
C2_AbsentKeyRecovered ==
    args.called =>
        \A i \in Pairs : AbsentPair(i) =>
            IF \E j \in Pairs : NotMappingPair(j)
            THEN outcome.kind = "TypeError"
            ELSE /\ outcome.kind = "return"
                 /\ OmittedOrFilled(i)
                 /\ \A j \in Pairs : FoundPair(j) => Extracted(j)

\* A call with fill on returned a record with one field filled with the
\* default 0 and another extracted.
C2_Witness ==
    /\ Returns
    /\ args.fill
    /\ args.default = IntVal(0)
    /\ \E i, j \in Pairs : AbsentPair(i) /\ OmittedOrFilled(i)
                           /\ FoundPair(j) /\ Extracted(j)

\* C3: when some pair indexes into a value that is no mapping, the call ends
\* in an error and returns no record, whatever fill is.
C3_NotMappingPropagates ==
    args.called =>
        ((\E i \in Pairs : NotMappingPair(i)) =>
            /\ outcome.kind = "TypeError"
            /\ outcome.ref \notin DOMAIN heap)

\* A call with fill on failed on a pair that indexes into a non-mapping, after
\* a pair with an absent key.
C3_Witness ==
    /\ args.called
    /\ args.fill
    /\ outcome.kind = "TypeError"
    /\ \E i, j \in Pairs : i < j /\ AbsentPair(i) /\ NotMappingPair(j)

InResult(key) == HasKey(Result, key)

\* C4: the keys of the returned record are the keys of the mapping that the
\* record has, in the order of the mapping.
C4_MappingOrder ==
    Returns => Keys(Result) = SelectSeq(Keys(TheMapping), InResult)

\* A record with both fields, in the mapping's order "b", "a", from a document
\* whose keys come in the order "y", "x".
C4_Witness ==
    /\ Returns
    /\ Keys(TheMapping) = << <<"b">>, <<"a">> >>
    /\ Keys(Result) = << <<"b">>, <<"a">> >>
    /\ Keys(args.doc) = <<ky, kx>>
    /\ \A i \in Pairs : FoundPair(i)

\* What a newly built adapter over the same mapping and separator gives for
\* the arguments of the latest call.
FreshCall ==
    LET mref == Alloc(<<>>)
        b == build_adapter([r \in {mref} |-> TheMapping], mref, closure.sep)
        dref == Alloc(b.heap)
        out == adapter(b.heap @@ (dref :> args.doc), b.closure, dref,
                       args.default, args.fill, 0)
    IN [kind |-> out.kind,
        record |-> IF out.kind = "return" THEN out.heap[out.ref] ELSE NoneVal]

\* C6: the outcome of every call, whatever calls came before it, is the outcome
\* a newly built adapter gives for the same document, default and fill.
C6_NoInterference ==
    args.called =>
        FreshCall = [kind |-> outcome.kind,
                     record |-> IF outcome.kind = "return" THEN Result ELSE NoneVal]

\* A call returned a record while the record of the call before it was still
\* alive.
C6_Witness ==
    /\ Returns
    /\ Len(Result.v) > 0
    /\ \E r \in args.alive : r \notin {closure.mapper, args.dref}

\* C9: after a call, returned or failed, the document and the mapping are what
\* they were before it, and a returned record is a new dict: an object that
\* was not alive when the call started.
C9_Frame ==
    args.called =>
        /\ heap[args.dref] = args.doc
        /\ heap[closure.mapper].v = caller.built
        /\ closure.mapper = caller.mapper
        /\ outcome.kind = "return" =>
              /\ outcome.ref \notin args.alive
              /\ Result.t = "dict"

\* A call returned a record with a field taken from a nested dict of the
\* document.
C9_Witness ==
    /\ Returns
    /\ \E i \in Pairs : FoundPair(i) /\ Extracted(i) /\ Len(Split(Loc(i), closure.sep)) > 1

----------------------------------------------------------------------------
(* Claims about the mapping the adapter closes over, under SpecMutable *)

RECURSIVE ExpectedItems(_, _)
\* The items a call over the mapping items pairs gives for the latest
\* arguments, from the i-th pair on, no pair indexing into a non-mapping.
ExpectedItems(pairs, i) ==
    IF i > Len(pairs) THEN <<>>
    ELSE (IF Found(args.doc, pairs[i][2].v, closure.sep)
          THEN << <<pairs[i][1], PathValue(args.doc, pairs[i][2].v, closure.sep)>> >>
          ELSE IF args.fill THEN << <<pairs[i][1], args.default>> >> ELSE <<>>)
             \o ExpectedItems(pairs, i + 1)

\* The latest call extracted exactly the fields and paths of pairs.
ExtractsExactly(pairs) ==
    IF closure.sep = <<>> /\ pairs # <<>>
    THEN outcome.kind = "ValueError"
    ELSE IF \E i \in 1..Len(pairs) : NotMapping(args.doc, pairs[i][2].v, closure.sep)
    THEN outcome.kind = "TypeError"
    ELSE outcome.kind = "return" /\ Result.v = ExpectedItems(pairs, 1)

\* C7 as stated: every call extracts exactly the fields and paths the mapping
\* held when build_adapter was called, also after the caller changed it.
C7_Original == args.called => ExtractsExactly(caller.built)

\* C7 amended: the adapter holds the caller's mapping object, not a copy of it.
\* Every call extracts exactly the fields and paths that object holds when
\* the call is made, so entries the caller adds, removes or changes between
\* calls take effect.
C7_LiveMapping == args.called => ExtractsExactly(heap[caller.mapper].v)

\* A call returned a field that the mapping did not have when the adapter
\* was built.
C7_Witness ==
    /\ Returns
    /\ \E key \in KeySet(Result) : \A i \in 1..Len(caller.built) : caller.built[i][1] # key

----------------------------------------------------------------------------
(* Claims about the converter, under SpecConvert *)

Before == DictVal(given.items)

After == rheap[given.ref]

\* The names of keys.
Named == {conv.keys[i] : i \in 1..Len(conv.keys)}

\* How often name occurs among the first n names of keys.
Count(name, n) == Cardinality({i \in 1..n : conv.keys[i] = name})

RECURSIVE Applied(_, _)
\* func applied n times in a row to v: the value, and whether every
\* application returned one.
Applied(v, n) ==
    IF n = 0 THEN [v |-> v, ok |-> TRUE]
    ELSE LET p == Applied(v, n - 1)
         IN IF p.ok /\ Apply(conv.func, p.v).kind = "value"
            THEN [v |-> Apply(conv.func, p.v).v, ok |-> TRUE]
            ELSE [v |-> p.v, ok |-> FALSE]

\* C5 as stated, for a func that returns a value on the old value of every
\* name: convert returns the record object it was given, every name of keys
\* that was present holds func(old value), no name is added, and the fields
\* not named are unchanged.
C5_Original ==
    (/\ given.called
     /\ \A name \in Named \cap KeySet(Before) :
           Apply(conv.func, Lookup(Before, name)).kind = "value")
    => /\ coutcome.kind = "return"
       /\ coutcome.ref = given.ref
       /\ KeySet(After) = KeySet(Before)
       /\ \A name \in KeySet(Before) :
             Lookup(After, name) =
                IF name \in Named THEN Apply(conv.func, Lookup(Before, name)).v
                ELSE Lookup(Before, name)

\* C5 amended: when every application of func returns a value, convert
\* returns the record object it was given, in which every name of keys that
\* was present holds func applied to the old value once for each time the name
\* occurs in keys, no name is added, and the fields not named are unchanged.
C5_ConvertedPerOccurrence ==
    (/\ given.called
     /\ \A name \in Named \cap KeySet(Before) :
           Applied(Lookup(Before, name), Count(name, Len(conv.keys))).ok)
    => /\ coutcome.kind = "return"
       /\ coutcome.ref = given.ref
       /\ KeySet(After) = KeySet(Before)
       /\ \A name \in KeySet(Before) :
             Lookup(After, name) =
                Applied(Lookup(Before, name), Count(name, Len(conv.keys))).v

\* convert(lambda x: x + 1, "r", "r") returned its record with "r" raised by 2.
C5_Witness ==
    /\ given.called
    /\ coutcome.kind = "return"
    /\ coutcome.ref = given.ref
    /\ conv.func = "succ"
    /\ conv.keys = <<kr, kr>>
    /\ HasKey(Before, kr)
    /\ Lookup(Before, kr) = IntVal(0)
    /\ Lookup(After, kr) = IntVal(2)
    /\ ~HasKey(After, kn)

RECURSIVE Chain(_, _)
\* The field after func was tried on it n times in a row, an application that
\* raises KeyError leaving it as it is, and the first other error met.
Chain(v, n) ==
    IF n = 0 THEN [v |-> v, err |-> "none"]
    ELSE LET p == Chain(v, n - 1)
             r == Apply(conv.func, p.v)
         IN IF p.err # "none" THEN p
            ELSE IF r.kind = "value" THEN [v |-> r.v, err |-> "none"]
            ELSE IF r.kind = "KeyError" THEN p
            ELSE [v |-> p.v, err |-> r.kind]

\* Processing the i-th name of keys raises an error other than KeyError.
Breaks(i) ==
    /\ HasKey(Before, conv.keys[i])
    /\ Chain(Lookup(Before, conv.keys[i]), Count(conv.keys[i], i)).err # "none"

\* The first name of keys whose processing breaks; one past the last if none.
Stop ==
    IF \E i \in 1..Len(conv.keys) : Breaks(i)
    THEN CHOOSE i \in 1..Len(conv.keys) :
            Breaks(i) /\ \A j \in 1..(i - 1) : ~Breaks(j)
    ELSE Len(conv.keys) + 1

\* C10: a KeyError raised by func on a present name is swallowed like an
\* absent name: the field keeps its value, the names after it are processed
\* and the record is returned.  Any other error of func ends the call with
\* that error, the names processed before it staying converted.
C10_KeyErrorSwallowed ==
    given.called =>
        /\ IF Stop <= Len(conv.keys)
           THEN /\ coutcome.kind =
                     Chain(Lookup(Before, conv.keys[Stop]), Count(conv.keys[Stop], Stop)).err
                /\ coutcome.ref = 0
           ELSE /\ coutcome.kind = "return"
                /\ coutcome.ref = given.ref
        /\ KeySet(After) = KeySet(Before)
        /\ \A name \in KeySet(Before) :
              Lookup(After, name) =
                 Chain(Lookup(Before, name),
                       Count(name, IF Stop <= Len(conv.keys) THEN Stop ELSE Len(conv.keys))).v

\* convert({1: 0}.__getitem__, "r", "n") on {"r": 0, "n": 1}: func raises
\* KeyError on "r", which keeps its 0, and "n" is converted after it.
C10_Witness ==
    /\ given.called
    /\ coutcome.kind = "return"
    /\ conv.func = "table"
    /\ conv.keys = <<kr, kn>>
    /\ HasKey(Before, kr) /\ Lookup(Before, kr) = IntVal(0)
    /\ Apply(conv.func, IntVal(0)).kind = "KeyError"
    /\ Lookup(After, kr) = IntVal(0)
    /\ HasKey(Before, kn) /\ Lookup(Before, kn) = IntVal(1)
    /\ Lookup(After, kn) = IntVal(0)

----------------------------------------------------------------------------
(* The claim about the time round trip, under SpecTime *)

\* C8: datetime_from_millis(to_millis(t)) is t with the sub-millisecond
\* digits of its microsecond field dropped.
C8_RoundTrip == stage = "back" => back = dt - (dt % 1000)

====
